---- MODULE Spec2Model ----
(***************************************************************************)
(* A state-machine model of pypfopt.efficient_frontier.EfficientFrontier.  *)
(*                                                                         *)
(* One instance is modelled: its attributes are the variables, __init__    *)
(* and every public method are the actions.  Numbers are exact integers    *)
(* (a weight, a return, a covariance entry, a target are whole multiples   *)
(* of one unit); a Python argument is a record that keeps its type, so     *)
(* that isinstance and the comparisons of the code can be evaluated as     *)
(* Python evaluates them.  scipy's minimiser is a nondeterministic choice  *)
(* of a point inside the box bounds it is passed: it returns whatever      *)
(* point it terminates at, feasible for the equality constraints or not.   *)
(***************************************************************************)
EXTENDS Integers, Sequences, FiniteSets, TLC

VARIABLES
    phase,             \* "new" (before __init__), "ready", "failed" (__init__ raised)
    init_args,         \* the kinds of the arguments __init__ was called with
    n_assets,          \* self.n_assets
    tickers,           \* self.tickers
    expected_returns,  \* self.expected_returns (Unset when never assigned)
    cov_matrix,        \* self.cov_matrix
    gamma,             \* self.gamma
    bounds,            \* self.bounds
    constraints,       \* self.constraints
    weights,           \* self.weights (None before the first solve)
    call,              \* the last call: method and arguments
    outcome,           \* how the last call ended
    passed,            \* what the last call handed to scipy.optimize.minimize
    solver_x,          \* result["x"] of the last call's solve
    returned,          \* the mapping the last call returned
    perf,              \* the tuple the last portfolio_performance returned
    warned             \* the warnings the last call issued

attrs == <<n_assets, tickers, expected_returns, cov_matrix, gamma, bounds,
           constraints, weights>>

obs == <<call, outcome, passed, solver_x, returned, perf, warned>>

vars == <<phase, init_args, n_assets, tickers, expected_returns, cov_matrix,
          gamma, bounds, constraints, weights, call, outcome, passed,
          solver_x, returned, perf, warned>>

---------------------------------------------------------------------------
(* Bounds of the model.                                                    *)

\* Weights range over -WMax..WMax where the box bounds leave them free.
WMax == 2

---------------------------------------------------------------------------
(* Python values.                                                          *)

\* Python's None, and an optional integer: <<>> is None, <<k>> is k.
None == <<>>
Some(k) == <<k>>

\* A scalar argument: its Python type and its value.
PyInt(k) == [ty |-> "int", cls |-> "fin", num |-> k]
PyFloat(k) == [ty |-> "float", cls |-> "fin", num |-> k]
NaN == [ty |-> "float", cls |-> "nan", num |-> 0]
PInf == [ty |-> "float", cls |-> "pinf", num |-> 0]
NInf == [ty |-> "float", cls |-> "ninf", num |-> 0]
PyStr == [ty |-> "str", cls |-> "na", num |-> 0]
NoArg == [ty |-> "NoneType", cls |-> "na", num |-> 0]

\* isinstance(v, float)
IsFloat(v) == v.ty = "float"

\* isinstance(v, (int, float))
IsIntOrFloat(v) == v.ty \in {"int", "float"}

\* v < 0 for a number: NaN compares false with everything.
LtZero(v) == (v.cls = "fin" /\ v.num < 0) \/ v.cls = "ninf"

\* v <= 0 for a number.
LeZero(v) == (v.cls = "fin" /\ v.num <= 0) \/ v.cls = "ninf"

\* A non-negative finite number, of either numeric type.
IsNonNegativeFinite(v) == v.ty \in {"int", "float"} /\ v.cls = "fin" /\ v.num >= 0

Abs(k) == IF k < 0 THEN -k ELSE k

Min(a, b) == IF a < b THEN a ELSE b

RECURSIVE SumTo(_, _)
SumTo(f, n) == IF n = 0 THEN 0 ELSE f[n] + SumTo(f, n - 1)

\* w.dot(mu)
Dot(w, mu) == SumTo([i \in 1..Len(w) |-> w[i] * mu[i]], Len(w))

\* objective_functions.volatility(w, cov) with its default gamma = 0: w' cov w
volatility(w, cov) == Dot(w, [i \in 1..Len(w) |-> Dot(cov[i], w)])

\* numpy's defaults: rtol = 1e-05 = 1 / RtolInv, atol = 1e-08 = 1 / AtolInv
RtolInv == 100000
AtolInv == 100000000

\* np.isclose(a, b) for finite a, b: |a - b| <= atol + rtol * |b|, that is
\* |a - b| * AtolInv <= 1 + (AtolInv / RtolInv) * |b|, on integers.
np_isclose(a, b) == Abs(a - b) <= (1 + (AtolInv \div RtolInv) * Abs(b)) \div AtolInv

\* dict(zip(keys, vals)): zip stops at the shorter, a repeated key keeps its
\* last value.
DictZip(keys, vals) ==
    LET n == Min(Len(keys), Len(vals))
        last(k) == CHOOSE i \in 1..n :
                       keys[i] = k /\ \A j \in 1..n : keys[j] = k => j <= i
    IN  [k \in {keys[i] : i \in 1..n} |-> vals[last(k)]]

NoMapping == [k \in {} |-> 0]

---------------------------------------------------------------------------
(* The inputs drawn.                                                       *)

\* expected_returns arguments: None, a pd.Series (with its index), a list, a
\* np.ndarray, and an object of another type.
ErKinds == {"NoneType", "Series", "list", "ndarray", "dict"}

\* cov_matrix arguments: a pd.DataFrame (with its columns), a np.ndarray and
\* an object of another type.
CovKinds == {"DataFrame", "ndarray", "list"}

\* The problem data: covariance entries and expected returns of two assets.
UncorrelatedData == [cov |-> << <<1, 0>>, <<0, 1>> >>, mu |-> <<1, 2>>]
CorrelatedData == [cov |-> << <<2, 1>>, <<1, 2>> >>, mu |-> <<3, 3>>]
SingularData == [cov |-> << <<1, 1>>, <<1, 1>> >>, mu |-> <<1, 2>>]
Datasets == {UncorrelatedData, CorrelatedData, SingularData}

SeriesIndex == <<"A", "B">>
FrameColumns == <<"X", "Y">>

MkReturns(kind, d) ==
    [kind |-> kind,
     values |-> IF kind = "NoneType" THEN <<>> ELSE d.mu,
     index |-> IF kind = "Series" THEN SeriesIndex ELSE <<>>]

MkCov(kind, d) ==
    [kind |-> kind, values |-> d.cov,
     columns |-> IF kind = "DataFrame" THEN FrameColumns ELSE <<>>]

Unset == [kind |-> "unset", values |-> <<>>, index |-> <<>>]

\* One (min, max) pair; None is "no bound on that side".
Pair(lo, hi) == [lo |-> lo, hi |-> hi]

\* weight_bounds arguments: a single pair, or one pair per asset.
DefaultWeightBounds == [form |-> "pair", pairs |-> <<Pair(Some(0), Some(1))>>]
WeightBoundsArgs ==
    { DefaultWeightBounds,
      [form |-> "pair", pairs |-> <<Pair(None, Some(1))>>],
      [form |-> "pair", pairs |-> <<Pair(Some(1), Some(0))>>],
      [form |-> "list", pairs |-> <<Pair(Some(-1), Some(1)), Pair(Some(0), Some(1))>>] }

GammaArgs == {PyInt(0), PyFloat(-1), PyStr}

TargetRiskArgs == {PyFloat(-1), PyFloat(0), PyFloat(1), PyInt(1), NaN, PInf, NInf, PyStr}

TargetReturnArgs == {PyFloat(-1), PyFloat(1), PyInt(1), PyStr}

RiskFreeRateArgs == {PyFloat(0), PyStr}

RiskAversionArgs == {PyInt(1), PyInt(0), PyFloat(-1)}

---------------------------------------------------------------------------
(* base_optimizer.BaseScipyOptimizer and base_optimizer.portfolio_performance: *)
(* the parts of the base module the class relies on.                       *)

\* The default budget constraint "weights sum to 1" the base class stores.
SumToOne == [type |-> "eq", fun |-> "sum_minus_1", target |-> NoArg]

\* _make_valid_bounds: a single pair is expanded to one pair per asset.
_make_valid_bounds(test_bounds, n) ==
    IF test_bounds.form = "pair"
    THEN [i \in 1..n |-> test_bounds.pairs[1]]
    ELSE test_bounds.pairs

\* min <= max for every asset, where both are given.
BoundsAreValid(bnds) ==
    \A i \in 1..Len(bnds) :
        (bnds[i].lo # None /\ bnds[i].hi # None) => bnds[i].lo[1] <= bnds[i].hi[1]

\* (expected return, volatility, Sharpe ratio) of the weights w.  The second
\* component is the variance w' cov w whose square root is the volatility;
\* the third is the excess return that the Sharpe ratio divides by that root.
PerformanceTuple(mu, cov, w, risk_free_rate) ==
    <<Dot(w, mu), volatility(w, cov), Dot(w, mu) - risk_free_rate.num>>

---------------------------------------------------------------------------
(* scipy.optimize.minimize (SLSQP): it returns the point it terminates at, *)
(* inside the box bounds, whether or not the constraints hold there.       *)

InBounds(x, pair) ==
    /\ (pair.lo # None => x >= pair.lo[1])
    /\ (pair.hi # None => x <= pair.hi[1])

sco_minimize(bnds, n) ==
    {x \in [1..n -> -WMax..WMax] : \A i \in 1..n : InBounds(x[i], bnds[i])}

\* np.linalg.solve(risk_aversion * cov, mu): the w with
\* risk_aversion * cov * w = mu.  The data drawn are either singular with no
\* such w (numpy raises LinAlgError) or have their one solution in range.
linalg_solve(risk_aversion, cov, mu) ==
    {w \in [1..Len(mu) -> -WMax..WMax] :
        \A i \in 1..Len(mu) : risk_aversion * Dot(cov[i], w) = mu[i]}

---------------------------------------------------------------------------
(* The bookkeeping of a call.                                              *)

NotPassed == [invoked |-> FALSE, objective |-> "", bounds |-> <<>>, constraints |-> <<>>]

Passed(objective, bnds, cons) ==
    [invoked |-> TRUE, objective |-> objective, bounds |-> bnds, constraints |-> cons]

Call(op, target, risk_free_rate, market_neutral) ==
    [op |-> op, target |-> target, rf |-> risk_free_rate, mn |-> market_neutral,
     verbose |-> FALSE]

\* The call raises before it has touched the instance or the solver.
Raise(error) ==
    /\ outcome' = error
    /\ passed' = NotPassed
    /\ solver_x' = None
    /\ returned' = NoMapping
    /\ perf' = <<>>
    /\ warned' = {}
    /\ UNCHANGED attrs

\* A solve by one of the modes without a target: the weights are stored and
\* returned as a mapping.
SolveAndReturn(objective) ==
    \E x \in sco_minimize(bounds, n_assets) :
        /\ passed' = Passed(objective, bounds, constraints)
        /\ solver_x' = x
        /\ weights' = x
        /\ returned' = DictZip(tickers, x)
        /\ outcome' = "returned"
        /\ perf' = <<>>
        /\ warned' = {}
        /\ UNCHANGED <<n_assets, tickers, expected_returns, cov_matrix, gamma,
                       bounds, constraints>>

---------------------------------------------------------------------------
(* EfficientFrontier.                                                      *)

\* range(len(expected_returns)) as a list
PositionalIndex(n) == [i \in 1..n |-> ToString(i - 1)]

__init__(er, cov, weight_bounds, g) ==
    /\ phase = "new"
    /\ init_args' = [er |-> er.kind, cov |-> cov.kind]
    /\ call' = Call("__init__", NoArg, NoArg, FALSE)
    /\ passed' = NotPassed
    /\ solver_x' = None
    /\ returned' = NoMapping
    /\ perf' = <<>>
    /\ LET er_type_error == er.kind # "NoneType"
                            /\ er.kind \notin {"Series", "list", "ndarray"}
           cov_type_error == er.kind # "NoneType"
                             /\ cov.kind \notin {"DataFrame", "ndarray"}
           \* len(expected_returns) of None
           len_type_error == er.kind # "Series" /\ cov.kind # "DataFrame"
                             /\ er.kind = "NoneType"
           tk == IF er.kind = "Series" THEN er.index
                 ELSE IF cov.kind = "DataFrame" THEN cov.columns
                 ELSE PositionalIndex(Len(er.values))
           bnds == _make_valid_bounds(weight_bounds, Len(tk))
       IN  IF er_type_error \/ cov_type_error \/ len_type_error
           THEN /\ phase' = "failed"
                /\ outcome' = "type_error"
                /\ warned' = {}
                /\ UNCHANGED attrs
           ELSE IF ~BoundsAreValid(bnds) \/ ~IsIntOrFloat(g)
           THEN /\ phase' = "failed"
                /\ outcome' = "config_error"
                /\ warned' = {}
                /\ UNCHANGED attrs
           ELSE /\ phase' = "ready"
                /\ outcome' = "constructed"
                /\ cov_matrix' = cov
                /\ expected_returns' = IF er.kind # "NoneType" THEN er ELSE Unset
                /\ n_assets' = Len(tk)
                /\ tickers' = tk
                /\ bounds' = bnds
                /\ constraints' = <<SumToOne>>
                /\ weights' = None
                /\ gamma' = g
                /\ warned' = IF LtZero(g) THEN {"UserWarning"} ELSE {}

max_sharpe(risk_free_rate) ==
    /\ phase = "ready"
    /\ call' = Call("max_sharpe", NoArg, risk_free_rate, FALSE)
    /\ UNCHANGED <<phase, init_args>>
    /\ IF ~IsIntOrFloat(risk_free_rate) THEN Raise("config_error")
       ELSE IF expected_returns = Unset THEN Raise("attribute_error")
       ELSE SolveAndReturn("negative_sharpe")

\* Mutant of min_volatility: the solver is called without the bounds.
min_volatility_unbounded ==
    /\ phase = "ready"
    /\ call' = Call("min_volatility", NoArg, NoArg, FALSE)
    /\ UNCHANGED <<phase, init_args>>
    /\ \E x \in [1..n_assets -> -WMax..WMax] :
        /\ passed' = Passed("volatility", <<>>, constraints)
        /\ solver_x' = x
        /\ weights' = x
        /\ returned' = DictZip(tickers, x)
        /\ outcome' = "returned"
        /\ perf' = <<>>
        /\ warned' = {}
        /\ UNCHANGED <<n_assets, tickers, expected_returns, cov_matrix, gamma,
                       bounds, constraints>>

min_volatility ==
    /\ phase = "ready"
    /\ call' = Call("min_volatility", NoArg, NoArg, FALSE)
    /\ UNCHANGED <<phase, init_args>>
    /\ SolveAndReturn("volatility")

max_unconstrained_utility(risk_aversion) ==
    /\ phase = "ready"
    /\ call' = Call("max_unconstrained_utility", risk_aversion, NoArg, FALSE)
    /\ UNCHANGED <<phase, init_args>>
    /\ IF LeZero(risk_aversion) THEN Raise("config_error")
       ELSE IF expected_returns = Unset THEN Raise("attribute_error")
       ELSE LET sol == linalg_solve(risk_aversion.num, cov_matrix.values,
                                    expected_returns.values)
            IN  IF sol = {} THEN Raise("linalg_error")
                ELSE \E w \in sol :
                        /\ weights' = w
                        /\ returned' = DictZip(tickers, w)
                        /\ outcome' = "returned"
                        /\ passed' = NotPassed
                        /\ solver_x' = None
                        /\ perf' = <<>>
                        /\ warned' = {}
                        /\ UNCHANGED <<n_assets, tickers, expected_returns,
                                       cov_matrix, gamma, bounds, constraints>>

custom_objective ==
    /\ phase = "ready"
    /\ call' = Call("custom_objective", NoArg, NoArg, FALSE)
    /\ UNCHANGED <<phase, init_args>>
    /\ SolveAndReturn("custom")

\* not isinstance(target, float) or target < 0, negated: the test both
\* efficient_risk and efficient_return put their target to.
target_accepted(target) == ~(~IsFloat(target) \/ LtZero(target))

\* any(b[0] < 0 for b in self.bounds if b[0] is not None)
portfolio_possible(bnds) ==
    \E i \in 1..Len(bnds) : bnds[i].lo # None /\ bnds[i].lo[1] < 0

\* The (-1, 1) the bounds are amended to.
MinusOneToOne == [form |-> "pair", pairs |-> <<Pair(Some(-1), Some(1))>>]

\* {"type": "eq", "fun": lambda x: np.sum(x)}
SumToZero == [type |-> "eq", fun |-> "sum", target |-> NoArg]

\* target_risk ** 2 - volatility(w, cov_matrix) = 0
TargetRisk(target_risk) == [type |-> "eq", fun |-> "target_risk", target |-> target_risk]

\* w.dot(expected_returns) - target_return = 0
TargetReturn(target_return) ==
    [type |-> "eq", fun |-> "target_return", target |-> target_return]

\* The constraints efficient_risk hands to the solver.
efficient_risk_constraints(target_risk, market_neutral) ==
    IF market_neutral
    THEN <<SumToZero, TargetRisk(target_risk)>>
    ELSE constraints \o <<TargetRisk(target_risk)>>

\* Mutant of efficient_return_constraints: the market-neutral branch extends
\* the stored constraints instead of replacing them.
efficient_return_constraints_extended(target_return, market_neutral) ==
    IF market_neutral
    THEN constraints \o <<SumToZero, TargetReturn(target_return)>>
    ELSE constraints \o <<TargetReturn(target_return)>>

\* The constraints efficient_return hands to the solver.
efficient_return_constraints(target_return, market_neutral) ==
    IF market_neutral
    THEN <<SumToZero, TargetReturn(target_return)>>
    ELSE constraints \o <<TargetReturn(target_return)>>

\* Mutant of risk_is_close: the volatility is only required not to exceed
\* the target.
risk_is_close_at_most(w, target_risk) ==
    /\ target_risk.cls = "fin"
    /\ volatility(w, cov_matrix.values) <= target_risk.num * target_risk.num

\* np.isclose(volatility(w, cov_matrix), target_risk ** 2); the volatility of
\* a finite w is finite, and nothing finite is close to inf or to nan.
risk_is_close(w, target_risk) ==
    /\ target_risk.cls = "fin"
    /\ np_isclose(volatility(w, cov_matrix.values), target_risk.num * target_risk.num)

\* np.isclose(w.dot(expected_returns), target_return)
return_is_close(w, target_return) ==
    /\ target_return.cls = "fin"
    /\ np_isclose(Dot(w, expected_returns.values), target_return.num)

\* Mutant of efficient_risk: the target constraint is appended to the stored
\* constraints (self.constraints += [target_constraint]).
efficient_risk_appending(target_risk, risk_free_rate, market_neutral) ==
    /\ phase = "ready"
    /\ call' = Call("efficient_risk", target_risk, risk_free_rate, market_neutral)
    /\ UNCHANGED <<phase, init_args>>
    /\ IF ~target_accepted(target_risk) THEN Raise("config_error")
       ELSE IF ~IsIntOrFloat(risk_free_rate) THEN Raise("config_error")
       ELSE IF expected_returns = Unset THEN Raise("attribute_error")
       ELSE LET amend == market_neutral /\ ~portfolio_possible(bounds)
                bnds == IF amend THEN _make_valid_bounds(MinusOneToOne, n_assets)
                        ELSE bounds
                cons == efficient_risk_constraints(target_risk, market_neutral)
            IN  \E x \in sco_minimize(bnds, n_assets) :
                    /\ warned' = IF amend THEN {"RuntimeWarning"} ELSE {}
                    /\ bounds' = bnds
                    /\ constraints' = IF market_neutral THEN constraints ELSE cons
                    /\ passed' = Passed("negative_mean_return", bnds, cons)
                    /\ solver_x' = x
                    /\ weights' = x
                    /\ perf' = <<>>
                    /\ IF risk_is_close(x, target_risk)
                       THEN outcome' = "returned" /\ returned' = DictZip(tickers, x)
                       ELSE outcome' = "infeasible" /\ returned' = NoMapping
                    /\ UNCHANGED <<n_assets, tickers, expected_returns, cov_matrix,
                                   gamma>>

efficient_risk(target_risk, risk_free_rate, market_neutral) ==
    /\ phase = "ready"
    /\ call' = Call("efficient_risk", target_risk, risk_free_rate, market_neutral)
    /\ UNCHANGED <<phase, init_args>>
    /\ IF ~target_accepted(target_risk) THEN Raise("config_error")
       ELSE IF ~IsIntOrFloat(risk_free_rate) THEN Raise("config_error")
       ELSE IF expected_returns = Unset THEN Raise("attribute_error")
       ELSE LET amend == market_neutral /\ ~portfolio_possible(bounds)
                bnds == IF amend THEN _make_valid_bounds(MinusOneToOne, n_assets)
                        ELSE bounds
                cons == efficient_risk_constraints(target_risk, market_neutral)
            IN  \E x \in sco_minimize(bnds, n_assets) :
                    /\ warned' = IF amend THEN {"RuntimeWarning"} ELSE {}
                    /\ bounds' = bnds
                    /\ passed' = Passed("negative_mean_return", bnds, cons)
                    /\ solver_x' = x
                    /\ weights' = x
                    /\ perf' = <<>>
                    /\ IF risk_is_close(x, target_risk)
                       THEN outcome' = "returned" /\ returned' = DictZip(tickers, x)
                       ELSE outcome' = "infeasible" /\ returned' = NoMapping
                    /\ UNCHANGED <<n_assets, tickers, expected_returns, cov_matrix,
                                   gamma, constraints>>

\* Mutant of efficient_return: the market-neutral amendment of the bounds
\* comes before the validation of the target.
efficient_return_amending_first(target_return, market_neutral) ==
    /\ phase = "ready"
    /\ call' = Call("efficient_return", target_return, NoArg, market_neutral)
    /\ UNCHANGED <<phase, init_args>>
    /\ LET amend == market_neutral /\ ~portfolio_possible(bounds)
           bnds == IF amend THEN _make_valid_bounds(MinusOneToOne, n_assets)
                   ELSE bounds
           cons == efficient_return_constraints(target_return, market_neutral)
       IN  /\ warned' = IF amend THEN {"RuntimeWarning"} ELSE {}
           /\ bounds' = bnds
           /\ perf' = <<>>
           /\ UNCHANGED <<n_assets, tickers, expected_returns, cov_matrix,
                          gamma, constraints>>
           /\ IF ~target_accepted(target_return)
              THEN /\ outcome' = "config_error"
                   /\ passed' = NotPassed
                   /\ solver_x' = None
                   /\ returned' = NoMapping
                   /\ UNCHANGED weights
              ELSE IF expected_returns = Unset
              THEN /\ outcome' = "attribute_error"
                   /\ passed' = Passed("volatility", bnds, cons)
                   /\ solver_x' = None
                   /\ returned' = NoMapping
                   /\ UNCHANGED weights
              ELSE \E x \in sco_minimize(bnds, n_assets) :
                   /\ passed' = Passed("volatility", bnds, cons)
                   /\ solver_x' = x
                   /\ weights' = x
                   /\ IF return_is_close(x, target_return)
                      THEN outcome' = "returned" /\ returned' = DictZip(tickers, x)
                      ELSE outcome' = "infeasible" /\ returned' = NoMapping

\* Mutant of efficient_return: the weights are stored only once the check
\* of the result has passed.
efficient_return_storing_late(target_return, market_neutral) ==
    /\ phase = "ready"
    /\ call' = Call("efficient_return", target_return, NoArg, market_neutral)
    /\ UNCHANGED <<phase, init_args>>
    /\ IF ~target_accepted(target_return) THEN Raise("config_error")
       ELSE LET amend == market_neutral /\ ~portfolio_possible(bounds)
                bnds == IF amend THEN _make_valid_bounds(MinusOneToOne, n_assets)
                        ELSE bounds
                cons == efficient_return_constraints(target_return, market_neutral)
            IN  /\ warned' = IF amend THEN {"RuntimeWarning"} ELSE {}
                /\ bounds' = bnds
                /\ passed' = Passed("volatility", bnds, cons)
                /\ perf' = <<>>
                /\ UNCHANGED <<n_assets, tickers, expected_returns, cov_matrix,
                               gamma, constraints>>
                /\ IF expected_returns = Unset
                   THEN /\ outcome' = "attribute_error"
                        /\ solver_x' = None
                        /\ returned' = NoMapping
                        /\ UNCHANGED weights
                   ELSE \E x \in sco_minimize(bnds, n_assets) :
                        /\ solver_x' = x
                        /\ IF return_is_close(x, target_return)
                           THEN /\ weights' = x
                                /\ outcome' = "returned"
                                /\ returned' = DictZip(tickers, x)
                           ELSE /\ UNCHANGED weights
                                /\ outcome' = "infeasible"
                                /\ returned' = NoMapping

efficient_return(target_return, market_neutral) ==
    /\ phase = "ready"
    /\ call' = Call("efficient_return", target_return, NoArg, market_neutral)
    /\ UNCHANGED <<phase, init_args>>
    /\ IF ~target_accepted(target_return) THEN Raise("config_error")
       ELSE LET amend == market_neutral /\ ~portfolio_possible(bounds)
                bnds == IF amend THEN _make_valid_bounds(MinusOneToOne, n_assets)
                        ELSE bounds
                cons == efficient_return_constraints(target_return, market_neutral)
            IN  /\ warned' = IF amend THEN {"RuntimeWarning"} ELSE {}
                /\ bounds' = bnds
                /\ passed' = Passed("volatility", bnds, cons)
                /\ perf' = <<>>
                /\ UNCHANGED <<n_assets, tickers, expected_returns, cov_matrix,
                               gamma, constraints>>
                /\ IF expected_returns = Unset
                   \* the target constraint reads self.expected_returns inside
                   \* the solve, which raises out of it
                   THEN /\ outcome' = "attribute_error"
                        /\ solver_x' = None
                        /\ returned' = NoMapping
                        /\ UNCHANGED weights
                   ELSE \E x \in sco_minimize(bnds, n_assets) :
                        /\ solver_x' = x
                        /\ weights' = x
                        /\ IF return_is_close(x, target_return)
                           THEN outcome' = "returned" /\ returned' = DictZip(tickers, x)
                           ELSE outcome' = "infeasible" /\ returned' = NoMapping

\* Mutant of portfolio_performance: the weights are made long-only in place
\* before the tuple is computed.
portfolio_performance_cleaning(verbose, risk_free_rate) ==
    /\ phase = "ready"
    /\ call' = [Call("portfolio_performance", NoArg, risk_free_rate, FALSE)
                   EXCEPT !.verbose = verbose]
    /\ UNCHANGED <<phase, init_args>>
    /\ IF expected_returns = Unset THEN Raise("attribute_error")
       ELSE IF weights = None THEN Raise("state_error")
       ELSE /\ weights' = [i \in 1..Len(weights) |-> Abs(weights[i])]
            /\ perf' = PerformanceTuple(expected_returns.values, cov_matrix.values,
                                        weights', risk_free_rate)
            /\ outcome' = "returned"
            /\ passed' = NotPassed
            /\ solver_x' = None
            /\ returned' = NoMapping
            /\ warned' = {}
            /\ UNCHANGED <<n_assets, tickers, expected_returns, cov_matrix, gamma,
                           bounds, constraints>>

portfolio_performance(verbose, risk_free_rate) ==
    /\ phase = "ready"
    /\ call' = [Call("portfolio_performance", NoArg, risk_free_rate, FALSE)
                   EXCEPT !.verbose = verbose]
    /\ UNCHANGED <<phase, init_args>>
    /\ IF expected_returns = Unset THEN Raise("attribute_error")
       ELSE IF weights = None THEN Raise("state_error")
       ELSE /\ perf' = PerformanceTuple(expected_returns.values, cov_matrix.values,
                                        weights, risk_free_rate)
            /\ outcome' = "returned"
            /\ passed' = NotPassed
            /\ solver_x' = None
            /\ returned' = NoMapping
            /\ warned' = {}
            /\ UNCHANGED attrs

---------------------------------------------------------------------------
(* The specification.                                                      *)

PerfRiskFreeRateArgs == {PyFloat(0), PyInt(1)}

\* The constructor calls drawn: every combination of argument types on the
\* default bounds and gamma, and every combination of data, bounds and gamma
\* on a Series and a DataFrame.
InitArgs ==
    { [er |-> MkReturns(ek, UncorrelatedData), cov |-> MkCov(ck, UncorrelatedData),
       wb |-> DefaultWeightBounds, g |-> PyInt(0)] : ek \in ErKinds, ck \in CovKinds }
    \cup
    { [er |-> MkReturns("Series", d), cov |-> MkCov("DataFrame", d),
       wb |-> wb, g |-> g] : d \in Datasets, wb \in WeightBoundsArgs, g \in GammaArgs }

Init ==
    /\ phase = "new"
    /\ init_args = [er |-> "none", cov |-> "none"]
    /\ n_assets = 0
    /\ tickers = <<>>
    /\ expected_returns = Unset
    /\ cov_matrix = [kind |-> "unset", values |-> <<>>, columns |-> <<>>]
    /\ gamma = NoArg
    /\ bounds = <<>>
    /\ constraints = <<>>
    /\ weights = None
    /\ call = Call("none", NoArg, NoArg, FALSE)
    /\ outcome = "none"
    /\ passed = NotPassed
    /\ solver_x = None
    /\ returned = NoMapping
    /\ perf = <<>>
    /\ warned = {}

Next ==
    \/ \E a \in InitArgs : __init__(a.er, a.cov, a.wb, a.g)
    \/ \E rf \in RiskFreeRateArgs : max_sharpe(rf)
    \/ min_volatility
    \/ \E ra \in RiskAversionArgs : max_unconstrained_utility(ra)
    \/ custom_objective
    \/ \E tr \in TargetRiskArgs, rf \in RiskFreeRateArgs, mn \in BOOLEAN :
           efficient_risk(tr, rf, mn)
    \/ \E tr \in TargetReturnArgs, mn \in BOOLEAN : efficient_return(tr, mn)
    \/ \E vb \in BOOLEAN, rf \in PerfRiskFreeRateArgs : portfolio_performance(vb, rf)

Spec == Init /\ [][Next]_vars

---------------------------------------------------------------------------
(* Vocabulary of the properties.                                           *)

SolverModes ==
    {"max_sharpe", "min_volatility", "custom_objective", "efficient_risk",
     "efficient_return"}

TargetModes == {"efficient_risk", "efficient_return"}

\* The mapping m has one weight per asset.
OneWeightPerAsset(m) ==
    /\ Cardinality(DOMAIN m) = n_assets
    /\ \A i \in 1..Len(tickers) : tickers[i] \in DOMAIN m

\* Every weight of the mapping m lies within its asset's (min, max) of bnds.
WithinBounds(m, bnds) ==
    \A i \in 1..Len(tickers) : InBounds(m[tickers[i]], bnds[i])

\* At least one asset can take a negative weight under bnds.
PermitsShorting(bnds) ==
    \E i \in 1..Len(bnds) : bnds[i].lo = None \/ bnds[i].lo[1] < 0

\* (-1, 1) for every asset.
AmendedBounds == [i \in 1..n_assets |-> Pair(Some(-1), Some(1))]

CountOf(cons, funs) == Cardinality({i \in 1..Len(cons) : cons[i].fun \in funs})

\* Exactly: the weights w meet the target of the call c.  At the magnitudes
\* drawn the tolerance of the comparison is below one unit, so "close" is
\* "equal".
MeetsTarget(c, w) ==
    /\ c.target.cls = "fin"
    /\ IF c.op = "efficient_risk"
       THEN volatility(w, cov_matrix.values) = c.target.num * c.target.num
       ELSE Dot(w, expected_returns.values) = c.target.num

---------------------------------------------------------------------------
(* The properties.                                                         *)

\* C1: whenever the solver of efficient_risk or efficient_return has
\* terminated at a point, the call returns the weight mapping of that point
\* exactly when the point meets the target (volatility equal to target_risk
\* squared, respectively w.mu equal to target_return); at every other point
\* it ends with the infeasibility error and returns no mapping.
C1_ReturnsOnlyWhenCheckPasses ==
    (call.op \in TargetModes /\ solver_x # None) =>
        IF MeetsTarget(call, solver_x)
        THEN outcome = "returned" /\ returned = DictZip(tickers, solver_x)
        ELSE outcome = "infeasible" /\ returned = NoMapping

\* C1 witness: efficient_risk has returned the mapping of a point whose
\* volatility is the square of a positive target.
C1_Witness ==
    /\ call.op = "efficient_risk" /\ outcome = "returned"
    /\ call.target = PyFloat(1) /\ volatility(weights, cov_matrix.values) = 1

\* The arguments of the call c are a configuration error of its method.
IsConfigurationError(c) ==
    \/ c.op \in {"max_sharpe", "efficient_risk"} /\ ~IsIntOrFloat(c.rf)
    \/ c.op = "max_unconstrained_utility" /\ c.target.num <= 0
    \/ c.op \in TargetModes /\ (~IsIntOrFloat(c.target) \/ LtZero(c.target))

\* C2: a method call whose arguments are a configuration error ends with
\* the configuration error, and a call that ends with it has neither invoked
\* the solver nor changed any attribute of the instance (weights and bounds
\* included), market-neutral calls included.
C2_ConfigurationErrorIsEager ==
    [][phase = "ready" =>
          /\ IsConfigurationError(call') => outcome' = "config_error"
          /\ outcome' = "config_error" =>
                 /\ ~passed'.invoked /\ solver_x' = None
                 /\ UNCHANGED attrs]_vars

\* C2 witness: a market-neutral efficient_return with a negative target has
\* raised on an instance that holds weights and whose bounds do not permit
\* shorting.
C2_Witness ==
    /\ call.op = "efficient_return" /\ call.mn /\ call.target = PyFloat(-1)
    /\ outcome = "config_error"
    /\ weights # None /\ ~PermitsShorting(bounds)

\* C3 (as claimed): efficient_risk, called with a numeric risk_free_rate on
\* an instance that has expected returns, reaches the solve exactly when
\* target_risk is a non-negative finite number of either numeric type, and
\* raises the configuration error for every other target_risk.
C3_AcceptsNonNegativeFinite ==
    (call.op = "efficient_risk" /\ IsIntOrFloat(call.rf) /\ expected_returns # Unset) =>
        IF IsNonNegativeFinite(call.target)
        THEN passed.invoked /\ outcome # "config_error"
        ELSE outcome = "config_error" /\ ~passed.invoked

\* C4 (as claimed): every mapping any of the six optimisation methods
\* returns has one weight per asset, each within its asset's bounds.
C4_EveryMethodWithinBounds ==
    (outcome = "returned" /\ call.op \in SolverModes \cup {"max_unconstrained_utility"}) =>
        OneWeightPerAsset(returned) /\ WithinBounds(returned, bounds)

\* C4 (amended): every mapping a method that solves through the solver
\* returns (max_sharpe, min_volatility, custom_objective, efficient_risk,
\* efficient_return) has one weight per asset, each within the bounds the
\* instance stores for its asset when the call returns; the mapping of
\* max_unconstrained_utility has one weight per asset.
C4_SolverModesWithinBounds ==
    /\ (outcome = "returned" /\ call.op \in SolverModes) =>
           OneWeightPerAsset(returned) /\ WithinBounds(returned, bounds)
    /\ (outcome = "returned" /\ call.op = "max_unconstrained_utility") =>
           OneWeightPerAsset(returned)

\* C4 witness: min_volatility has returned one weight per asset, one of them
\* on a lower and one on an upper bound.
C4_Witness ==
    /\ call.op = "min_volatility" /\ outcome = "returned"
    /\ Cardinality(DOMAIN returned) = 2
    /\ \E i \in 1..n_assets : bounds[i].lo = Some(returned[tickers[i]])
    /\ \E i \in 1..n_assets : bounds[i].hi = Some(returned[tickers[i]])

\* C5 (as claimed): a market-neutral efficient_risk or efficient_return
\* that gets as far as the solver replaces the stored bounds by (-1, 1) for
\* all assets, with a warning, exactly when no asset can take a negative
\* weight under the current bounds; otherwise it leaves them unchanged and
\* issues no warning.
C5_AmendsExactlyWhenNoShorting ==
    [][(phase = "ready" /\ call'.op \in TargetModes /\ call'.mn /\ passed'.invoked) =>
          IF PermitsShorting(bounds)
          THEN bounds' = bounds /\ warned' = {}
          ELSE bounds' = AmendedBounds /\ warned' = {"RuntimeWarning"}]_vars

\* C6: the constraints handed to the solver hold exactly one budget
\* constraint, "sum to 1" in a call that is not market neutral and "sum to
\* 0" in a market-neutral one, and efficient_risk and efficient_return add
\* exactly one target constraint, their own, where the other modes add none.
C6_OneBudgetConstraint ==
    passed.invoked =>
        /\ CountOf(passed.constraints, {"sum_minus_1"}) = (IF call.mn THEN 0 ELSE 1)
        /\ CountOf(passed.constraints, {"sum"}) = (IF call.mn THEN 1 ELSE 0)
        /\ CountOf(passed.constraints, {"target_risk"})
               = (IF call.op = "efficient_risk" THEN 1 ELSE 0)
        /\ CountOf(passed.constraints, {"target_return"})
               = (IF call.op = "efficient_return" THEN 1 ELSE 0)
        /\ Len(passed.constraints) = (IF call.op \in TargetModes THEN 2 ELSE 1)

\* C6 witness: a market-neutral efficient_return has handed its constraints
\* to the solver.
C6_Witness ==
    /\ call.op = "efficient_return" /\ call.mn /\ passed.invoked
    /\ passed.constraints = <<SumToZero, TargetReturn(call.target)>>

\* C7 (as claimed): construction takes the tickers from the expected
\* returns' index if they are a Series, else from the covariance matrix's
\* columns if it is a DataFrame, else the positional index 0..N-1; with
\* expected returns None and a plain-array covariance matrix it succeeds
\* with the positional index; the tickers number the assets.
C7_ConstructionDerivesTickers ==
    /\ (init_args.er = "NoneType" /\ init_args.cov = "ndarray") =>
           phase = "ready" /\ tickers = PositionalIndex(Len(cov_matrix.values))
    /\ phase = "ready" =>
           /\ Len(tickers) = n_assets
           /\ tickers = IF init_args.er = "Series" THEN SeriesIndex
                        ELSE IF init_args.cov = "DataFrame" THEN FrameColumns
                        ELSE PositionalIndex(Len(cov_matrix.values))

\* C8: portfolio_performance changes no attribute of the instance (weights,
\* bounds, constraints, problem data), and called again with the same
\* arguments right after it has returned, it returns the same tuple.
C8_PerformanceIsReadOnly ==
    [][call'.op = "portfolio_performance" =>
          /\ UNCHANGED attrs
          /\ (call = call' /\ outcome = "returned" /\ outcome' = "returned") =>
                 perf' = perf]_vars

\* C8 witness: portfolio_performance has returned a tuple for weights with a
\* short position.
C8_Witness ==
    /\ call.op = "portfolio_performance" /\ outcome = "returned" /\ perf # <<>>
    /\ \E i \in 1..n_assets : weights[i] < 0

\* C9: when efficient_risk or efficient_return ends with the infeasibility
\* error, the stored weights are the rejected output of that solve, bounds
\* the call amended stay amended, and a portfolio_performance that follows
\* reports on the rejected weights.
C9_InfeasibleCallHasChangedState ==
    [][/\ outcome' = "infeasible" =>
              /\ weights' = solver_x' /\ ~MeetsTarget(call', weights')
              /\ ("RuntimeWarning" \in warned' => bounds' = AmendedBounds)
       /\ (outcome = "infeasible" /\ call'.op = "portfolio_performance") =>
              /\ outcome' = "returned"
              /\ perf' = PerformanceTuple(expected_returns.values, cov_matrix.values,
                                          solver_x, call'.rf)]_vars

\* C9 witness: a market-neutral efficient_return has amended the bounds and
\* ended infeasible, leaving rejected weights that no earlier call stored.
C9_Witness ==
    /\ call.op = "efficient_return" /\ outcome = "infeasible"
    /\ "RuntimeWarning" \in warned /\ bounds = AmendedBounds
    /\ weights = solver_x /\ weights = <<-1, -1>>

\* C10: no method call changes the stored constraint set, and the target
\* and sum-to-zero constraints handed to the solver are those of the call
\* itself: a target constraint carries this call's target, and a sum-to-zero
\* constraint is there only in a market-neutral call.
C10_StoredConstraintsAreFixed ==
    [][phase = "ready" =>
          /\ constraints' = constraints
          /\ \A i \in 1..Len(passed'.constraints) :
                 LET c == passed'.constraints[i]
                 IN  /\ c.fun \in {"target_risk", "target_return"} =>
                            call'.op \in TargetModes /\ c.target = call'.target
                     /\ c.fun = "sum" => call'.mn
                     /\ c \in {constraints[j] : j \in 1..Len(constraints)} \/
                            c \in {SumToZero, TargetRisk(call'.target),
                                   TargetReturn(call'.target)}]_vars

\* C10 witness: an efficient_risk that is not market neutral has handed the
\* solver the stored constraints and its target, and the stored constraint
\* set still is the single budget constraint.
C10_Witness ==
    /\ call.op = "efficient_risk" /\ ~call.mn /\ passed.invoked
    /\ passed.constraints = constraints \o <<TargetRisk(call.target)>>
    /\ constraints = <<SumToOne>>

====
